---- MODULE Spec2Model ----
(***************************************************************************)
(* Unique coupon-code generation: PlayingAround/src/bin/coupon_generator_... *)
(*                                                                         *)
(* One state machine per binary, sharing the request, the registry and the *)
(* worker state:                                                           *)
(*   "ticket"  coupon_generator_to_csv_latest.rs / coupon_generator_large_ *)
(*             csv.rs: AtomicUsize ticket counter + Mutex<HashSet>         *)
(*   "lock"    coupon_generator_large.rs: Mutex<HashSet> only              *)
(*   "stream"  coupon_generator_API.rs: futures::stream::unfold            *)
(*                                                                         *)
(* Strings are sequences of bytes (a Rust String is a UTF-8 byte vector    *)
(* and str::len counts bytes).  Machine integers wider than TLC's are      *)
(* little-endian sequences of 16-bit limbs without leading zero limbs.     *)
(***************************************************************************)
EXTENDS Integers, Sequences, FiniteSets, Bags, TLC

\* ------------------------------------------------------------- bounds ----
\* Largest total coupon length (u16 len) of a generation run.
MaxLen == 2
\* Largest length of the random part (code_len) of a generation run.
MaxSuffix == 1
\* Largest number of coupons requested in a generation run.
MaxCoupons == 2
\* Largest rayon::current_num_threads().
MaxThreads == 2
\* rayon::current_num_threads() of a many-core machine.
ManyThreads == 8
\* Largest total coupon length given to validation alone.
MaxValLen == 32
\* Most bytes one call of generate_coupon draws.
MaxDraw == 2

\* ------------------------------------------- arbitrary-size naturals ----
Base == 256 * 256

UsizeLimbs == 64 \div 16
U128Limbs == 128 \div 16

RECURSIVE FromNat(_)
FromNat(n) == IF n = 0 THEN << >> ELSE <<n % Base>> \o FromNat(n \div Base)

\* Defined for values below 2^31 only.
RECURSIVE ToNat(_)
ToNat(x) == IF x = << >> THEN 0 ELSE Head(x) + Base * ToNat(Tail(x))

RECURSIVE Normalize(_)
Normalize(x) ==
    IF x = << >> THEN << >>
    ELSE IF x[Len(x)] = 0 THEN Normalize(SubSeq(x, 1, Len(x) - 1))
    ELSE x

RECURSIVE MulSmall(_, _, _)
MulSmall(x, m, carry) ==
    IF x = << >> THEN FromNat(carry)
    ELSE LET p == Head(x) * m + carry
         IN  Normalize(<<p % Base>> \o MulSmall(Tail(x), m, p \div Base))

RECURSIVE BigPow(_, _)
BigPow(b, k) == IF k = 0 THEN <<1>> ELSE MulSmall(BigPow(b, k - 1), b, 0)

RECURSIVE BigSucc(_)
BigSucc(x) ==
    IF x = << >> THEN <<1>>
    ELSE IF Head(x) + 1 < Base THEN <<Head(x) + 1>> \o Tail(x)
    ELSE <<0>> \o BigSucc(Tail(x))

RECURSIVE BigPred(_)
BigPred(x) ==
    IF Head(x) > 0 THEN Normalize(<<Head(x) - 1>> \o Tail(x))
    ELSE <<Base - 1>> \o BigPred(Tail(x))

RECURSIVE BigLt(_, _)
BigLt(a, b) ==
    IF Len(a) # Len(b) THEN Len(a) < Len(b)
    ELSE IF a = << >> THEN FALSE
    ELSE IF a[Len(a)] # b[Len(b)] THEN a[Len(a)] < b[Len(b)]
    ELSE BigLt(SubSeq(a, 1, Len(a) - 1), SubSeq(b, 1, Len(b) - 1))

BigLe(a, b) == ~BigLt(b, a)

\* x mod 2^(16 * limbs): the value an integer type of that width keeps.
Wrap(x, limbs) ==
    Normalize(SubSeq(x, 1, IF Len(x) < limbs THEN Len(x) ELSE limbs))

Fits(x, limbs) == Len(x) <= limbs

\* 2^(16 * limbs) - d, for 0 < d <= Base.
TwoPowMinus(limbs, d) ==
    Normalize([i \in 1..limbs |-> IF i = 1 THEN Base - d ELSE Base - 1])

\* ------------------------------------------------------------ charset ----
\* b"ABCDEFGHIJKLMNOPQRSTUVWXYZ0123456789"
CHARSET ==
    <<65, 66, 67, 68, 69, 70, 71, 72, 73, 74, 75, 76, 77,
      78, 79, 80, 81, 82, 83, 84, 85, 86, 87, 88, 89, 90,
      48, 49, 50, 51, 52, 53, 54, 55, 56, 57>>

CHARSET_LEN == Len(CHARSET)

ByteValues == 0..255

\* ['\0'; 256] with lookup[b] = b for every b of CHARSET.
CHAR_LOOKUP ==
    [b \in ByteValues |->
        IF \E i \in 1..CHARSET_LEN : CHARSET[i] = b THEN b ELSE 0]

\* Mutant: coupon.push_str(initials) left out.
generate_coupon_no_initials(buffer, code_len, initials) ==
    [i \in 1..code_len |-> CHAR_LOOKUP[CHARSET[(buffer[i] % CHARSET_LEN) + 1]]]

\* Mutant: CHAR_LOOKUP[index] instead of CHAR_LOOKUP[CHARSET[index]].
generate_coupon_raw_index(buffer, code_len, initials) ==
    initials \o [i \in 1..code_len |-> CHAR_LOOKUP[buffer[i] % CHARSET_LEN]]

\* Mutant: a 32-symbol alphabet, which 256 byte values cover evenly.
generate_coupon_mod32(buffer, code_len, initials) ==
    initials \o
    [i \in 1..code_len |-> CHAR_LOOKUP[CHARSET[(buffer[i] % 32) + 1]]]

\* generate_coupon with the bytes rng.fill_bytes put into buffer.
generate_coupon(buffer, code_len, initials) ==
    initials \o
    [i \in 1..code_len |-> CHAR_LOOKUP[CHARSET[(buffer[i] % CHARSET_LEN) + 1]]]

\* --------------------------------------------------------- validation ----
\* len as usize - initial_len: panics with overflow checks, wraps without.
UsizeSub(a, b, checks) ==
    IF a >= b THEN [overflow |-> "none", val |-> FromNat(a - b)]
    ELSE IF checks THEN [overflow |-> "panic", val |-> << >>]
    ELSE [overflow |-> "wrap", val |-> TwoPowMinus(UsizeLimbs, b - a)]

\* code_len as u32
AsU32(x) == ToNat(Wrap(x, 2))

\* (base as u128).pow(exp): panics with overflow checks, wraps without.
U128Pow(b, exp, checks) ==
    LET exact == BigPow(b, exp)
    IN  IF Fits(exact, U128Limbs) THEN [overflow |-> "none", val |-> exact]
        ELSE IF checks THEN [overflow |-> "panic", val |-> << >>]
        ELSE [overflow |-> "wrap", val |-> Wrap(exact, U128Limbs)]

\* max_combinations as usize
AsUsize(x) == Wrap(x, UsizeLimbs)

\* Mutant: number_coupons >= max_combinations as usize.
TooManyAtBoundary(n, max_combinations) == BigLe(AsUsize(max_combinations), n)

\* Mutant: the count is never checked.
TooManyNever(n, max_combinations) == FALSE

\* number_coupons > max_combinations as usize
TooMany(n, max_combinations) == BigLt(AsUsize(max_combinations), n)

Outcome(res, cl, mc, ov) ==
    [result |-> res, code_len |-> cl, max_combinations |-> mc, overflow |-> ov]

\* The straight-line head of coupon_generator, up to the last early return.
Validation(l, n, ini, checks) ==
    LET initial_len == Len(ini)
        sub == UsizeSub(l, initial_len, checks)
    IN  IF sub.overflow = "panic"
        THEN Outcome("panic", << >>, << >>, "panic")
        ELSE IF initial_len > l
        THEN Outcome("InitialsTooLong", sub.val, << >>, sub.overflow)
        ELSE LET p == U128Pow(CHARSET_LEN, AsU32(sub.val), checks)
             IN  IF p.overflow = "panic"
                 THEN Outcome("panic", sub.val, << >>, "panic")
                 ELSE IF TooMany(n, p.val)
                 THEN Outcome("TooManyCoupons", sub.val, p.val, p.overflow)
                 ELSE Outcome("validated", sub.val, p.val, p.overflow)

\* -------------------------------------------------------------- state ----
VARIABLES
    program,          \* which binary runs
    len,              \* request: total length (u16)
    number_coupons,   \* request: required count (usize)
    initials,         \* request: prefix (&str)
    num_threads,      \* rayon::current_num_threads()
    rng_bytes,        \* the bytes rng.fill_bytes delivers to a lone call of
                      \* generate_coupon (empty where workers draw their own)
    main_pc,          \* position of the calling thread
    overflow,         \* what an overflowing operation did: "panic" with
                      \* overflow checks (debug), "wrap" without (release)
    result,           \* what coupon_generator returned, or "pending"
    code_len,         \* local: length of the random part (usize)
    max_combinations, \* local: CHARSET_LEN ^ code_len (u128)
    coupons,          \* Mutex<HashSet<String>>: the registry's contents
    lock,             \* worker holding the registry lock, 0 when free
    counter,          \* AtomicUsize ticket counter
    wpc,              \* per worker: position in the spawned closure
    my_number,        \* per worker: the ticket it is working on (0 when
                      \* the variable is out of scope)
    coupon,           \* per worker: candidate produced by generate_coupon
    ret,              \* the Vec<String> returned
    yielded,          \* the items the stream has yielded, in order
    issued,           \* history: bag of <<worker, ticket>>, one copy for
                      \* every value below number_coupons fetch_add returned
    accepted,         \* history: bag of codes for which insert returned true
    csv_pc,           \* where write_coupons_to_csv is
    csv_i,            \* code rows it has written
    sink,             \* the bytes the writer has put out
    flushes,          \* completed calls of flush
    csv_result        \* what write_coupons_to_csv returned

vars ==
    <<program, len, number_coupons, initials, num_threads, rng_bytes,
      main_pc, overflow, result, code_len, max_combinations, coupons, lock, counter,
      wpc, my_number, coupon, ret, yielded, issued, accepted,
      csv_pc, csv_i, sink, flushes, csv_result>>

export == <<csv_pc, csv_i, sink, flushes, csv_result>>

locals == <<overflow, code_len, max_combinations>>

request == <<program, len, number_coupons, initials, num_threads, rng_bytes>>

Workers == 1..(IF ManyThreads > MaxThreads THEN ManyThreads ELSE MaxThreads)

Spawned == 1..num_threads

\* "", "L", "LI"
PrefixSamples == {<< >>, <<76>>, <<76, 73>>}

\* Bytes the random source is seen to deliver: enough distinct symbols for
\* every count up to MaxCoupons, and CHARSET_LEN, which wraps round to 'A'.
SampleBytes == (0..(MaxCoupons - 1)) \cup {CHARSET_LEN}

NoCoupon == <<0>>

InitLocals ==
    /\ main_pc = "start"
    /\ overflow = "none"
    /\ result = "pending"
    /\ code_len = << >>
    /\ max_combinations = << >>
    /\ coupons = {}
    /\ lock = 0
    /\ counter = 0
    /\ wpc = [w \in Workers |-> "idle"]
    /\ csv_pc = "none"
    /\ csv_i = 0
    /\ sink = << >>
    /\ flushes = 0
    /\ csv_result = "pending"
    /\ my_number = [w \in Workers |-> 0]
    /\ coupon = [w \in Workers |-> NoCoupon]
    /\ ret = << >>
    /\ yielded = << >>
    /\ issued = EmptyBag
    /\ accepted = EmptyBag

\* A generation run: small requests, valid and invalid.
InitRun(p) ==
    /\ program = p
    /\ len \in 0..MaxLen
    /\ number_coupons \in {FromNat(n) : n \in 0..MaxCoupons}
    /\ initials \in PrefixSamples
    /\ len - Len(initials) <= MaxSuffix
    /\ num_threads \in 1..MaxThreads
    /\ rng_bytes = << >>
    /\ InitLocals

\* ------------------------------------------------ coupon_generator ----
\* What a call does with the outcome v of its checks.
ValidateStep(v) ==
    /\ main_pc = "start"
    /\ overflow' = v.overflow
    /\ code_len' = v.code_len
    /\ max_combinations' = v.max_combinations
    /\ IF v.result = "validated"
       THEN main_pc' = "validated" /\ result' = result
       ELSE IF v.result = "panic"
       THEN main_pc' = "panicked" /\ result' = v.result
       ELSE main_pc' = "returned" /\ result' = v.result
    /\ UNCHANGED <<request, export, yielded, coupons, lock, counter, wpc, my_number,
                   coupon, ret, issued, accepted>>

\* Lines 98-110: the checks, each an early return.  The build profile
\* decides what an overflow does.
Validate ==
    /\ program \in {"ticket", "stream"}
    /\ \E overflow_checks \in BOOLEAN :
          ValidateStep(Validation(len, number_coupons, initials, overflow_checks))

\* Lines 113-122: the registry, the counter, one task per pool thread.
Spawn ==
    /\ program = "ticket"
    /\ main_pc = "validated"
    /\ main_pc' = "scope"
    /\ coupons' = {}
    /\ counter' = 0
    /\ wpc' = [w \in Workers |-> IF w \in Spawned THEN "fetch" ELSE "idle"]
    /\ UNCHANGED <<request, export, locals, yielded, result, lock, my_number, coupon,
                   ret, issued, accepted>>

\* Mutant: my_number > number_coupons.
OutOfTicketsOffByOne(my, n) == BigLt(n, FromNat(my))

\* my_number >= number_coupons
OutOfTickets(my, n) == BigLe(n, FromNat(my))

\* Mutant: counter.load(SeqCst), the increment forgotten.
fetch_add_load(c) == [old |-> c, new |-> c]

\* Mutant: fetch_add(2, SeqCst).
fetch_add_two(c) == [old |-> c, new |-> c + 2]

\* AtomicUsize::fetch_add(1, SeqCst): one atomic read-modify-write.
fetch_add(c) == [old |-> c, new |-> c + 1]

\* Lines 125-128: counter.fetch_add(1, SeqCst) and the test of its result.
FetchAdd(w) ==
    /\ program = "ticket"
    /\ main_pc = "scope"
    /\ wpc[w] = "fetch"
    /\ counter' = fetch_add(counter).new
    /\ LET fetched == fetch_add(counter).old
       IN  IF OutOfTickets(fetched, number_coupons)
           THEN /\ wpc' = [wpc EXCEPT ![w] = "done"]
                /\ my_number' = [my_number EXCEPT ![w] = 0]
                /\ issued' = issued
           ELSE /\ wpc' = [wpc EXCEPT ![w] = "generate"]
                /\ my_number' = [my_number EXCEPT ![w] = fetched]
                /\ issued' = issued (+) SetToBag({<<w, fetched>>})
    /\ UNCHANGED <<request, export, locals, yielded, main_pc, result, coupons, lock,
                   coupon, ret, accepted>>

\* Line 132: generate_coupon(&mut rng, code_len, initials).
Generate(w) ==
    /\ main_pc = "scope"
    /\ wpc[w] = "generate"
    /\ \E buffer \in [1..ToNat(code_len) -> SampleBytes] :
          coupon' = [coupon EXCEPT ![w] =
                       generate_coupon(buffer, ToNat(code_len), initials)]
    /\ wpc' = [wpc EXCEPT ![w] = "lock"]
    /\ UNCHANGED <<request, export, locals, yielded, main_pc, result, coupons, lock,
                   counter, my_number, ret, issued, accepted>>

\* Mutant: a lock that lets everyone in.
UnlockedAlways(holder) == TRUE

\* Mutex::lock returns once no thread holds the mutex.
Unlocked(holder) == holder = 0

\* Line 133: coupons.lock().
Lock(w) ==
    /\ main_pc = "scope"
    /\ wpc[w] = "lock"
    /\ Unlocked(lock)
    /\ lock' = w
    /\ wpc' = [wpc EXCEPT ![w] = "insert"]
    /\ UNCHANGED <<request, export, locals, yielded, main_pc, result, coupons,
                   counter, my_number, coupon, ret, issued, accepted>>

\* Mutant: insert reports true whatever the set holds.
InsertedAlways(set, c) == TRUE

\* HashSet::insert: whether the value was newly inserted.
Inserted(set, c) == c \notin set

\* Mutant: the guard outlives a round whose insert returned false.
GuardKeptOnReject(holder, inserted) == IF inserted THEN 0 ELSE holder

\* The holder of the lock once `set` goes out of scope, at the break and
\* at the end of the round alike: nobody.
GuardDropped(holder, inserted) == 0

\* Lines 134-137: set.insert(coupon), then the guard is dropped.
Insert(w) ==
    /\ program = "ticket"
    /\ main_pc = "scope"
    /\ wpc[w] = "insert"
    /\ lock = w
    /\ coupons' = coupons \cup {coupon[w]}
    /\ IF Inserted(coupons, coupon[w])
       THEN /\ wpc' = [wpc EXCEPT ![w] = "fetch"]
            /\ my_number' = [my_number EXCEPT ![w] = 0]
            /\ accepted' = accepted (+) SetToBag({coupon[w]})
       ELSE /\ wpc' = [wpc EXCEPT ![w] = "generate"]
            /\ my_number' = my_number
            /\ accepted' = accepted
    /\ coupon' = [coupon EXCEPT ![w] = NoCoupon]
    /\ lock' = GuardDropped(lock, Inserted(coupons, coupon[w]))
    /\ UNCHANGED <<request, export, locals, yielded, main_pc, result, counter,
                   ret, issued>>

RECURSIVE Orderings(_)
Orderings(S) ==
    IF S = {} THEN {<< >>}
    ELSE UNION {{<<x>> \o s : s \in Orderings(S \ {x})} : x \in S}

\* Lines 141-148: the scope ends when every task has, and the set is
\* collected into a Vec in the HashSet's iteration order.
Join ==
    /\ main_pc = "scope"
    /\ \A w \in Spawned : wpc[w] = "done"
    /\ main_pc' = "returned"
    /\ result' = "Ok"
    /\ ret' \in Orderings(coupons)
    /\ UNCHANGED <<request, export, locals, yielded, coupons, lock, counter, wpc,
                   my_number, coupon, issued, accepted>>

Next ==
    \/ Validate
    \/ Spawn
    \/ \E w \in Workers : FetchAdd(w)
    \/ \E w \in Workers : Generate(w)
    \/ \E w \in Workers : Lock(w)
    \/ \E w \in Workers : Insert(w)
    \/ Join

\* One request, coupon_generator(1, 2, ""), on a many-core machine.
InitMany ==
    /\ program = "ticket"
    /\ len = 1
    /\ number_coupons = FromNat(2)
    /\ initials = << >>
    /\ num_threads = ManyThreads
    /\ rng_bytes = << >>
    /\ InitLocals

InitFew == InitRun("ticket")

Init == InitFew \/ InitMany

Spec == Init /\ [][Next]_vars

\* ----------------------------------------------------------- fairness ----
\* A draw that yields a code the registry does not hold.
GenerateFresh(w) == Generate(w) /\ coupon'[w] \notin coupons

\* Every pool thread keeps running its task, the mutex hands the lock to
\* every waiter eventually (parking_lot's eventual fairness), and a worker
\* that keeps drawing eventually draws a code not yet in the registry.
Fairness ==
    /\ WF_vars(Validate \/ Spawn \/ Join)
    /\ \A w \in 1..MaxThreads :
          /\ WF_vars(FetchAdd(w) \/ Generate(w) \/ Insert(w))
          /\ SF_vars(GenerateFresh(w))
          /\ SF_vars(Lock(w))

FairSpec == InitFew /\ [][Next]_vars /\ Fairness

\* ------------------------------- coupon_generator_large.rs (lock-only) ----
\* number_coupons > max_combinations, both u128.
TooManyU128(n, mc) == BigLt(mc, n)

\* Lines 45-55 of coupon_generator_large.rs.
ValidationU128(l, n, ini, checks) ==
    LET initial_len == Len(ini)
        sub == UsizeSub(l, initial_len, checks)
    IN  IF sub.overflow = "panic"
        THEN Outcome("panic", << >>, << >>, "panic")
        ELSE IF initial_len > l
        THEN Outcome("InitialsTooLong", sub.val, << >>, sub.overflow)
        ELSE LET p == U128Pow(CHARSET_LEN, AsU32(sub.val), checks)
             IN  IF p.overflow = "panic"
                 THEN Outcome("panic", sub.val, << >>, "panic")
                 ELSE IF TooManyU128(n, p.val)
                 THEN Outcome("TooManyCoupons", sub.val, p.val, p.overflow)
                 ELSE Outcome("validated", sub.val, p.val, p.overflow)

ValidateLarge ==
    /\ program = "lock"
    /\ \E overflow_checks \in BOOLEAN :
          ValidateStep(ValidationU128(len, number_coupons, initials, overflow_checks))

\* Lines 57-63: the registry and one task per pool thread, each entering
\* its loop at generate_coupon.
SpawnLarge ==
    /\ program = "lock"
    /\ main_pc = "validated"
    /\ main_pc' = "scope"
    /\ coupons' = {}
    /\ wpc' = [w \in Workers |-> IF w \in Spawned THEN "generate" ELSE "idle"]
    /\ UNCHANGED <<request, export, locals, yielded, result, lock, counter,
                   my_number, coupon, ret, issued, accepted>>

\* set.len() as u128 >= target_count
TargetReached(set, target) == BigLe(target, FromNat(Cardinality(set)))

\* Lines 67-72: set.insert(coupon); the length is tested, and the loop
\* left, only after an insert that returned true.  The guard is dropped.
InsertLarge(w) ==
    /\ program = "lock"
    /\ main_pc = "scope"
    /\ wpc[w] = "insert"
    /\ lock = w
    /\ coupons' = coupons \cup {coupon[w]}
    /\ IF Inserted(coupons, coupon[w])
       THEN /\ accepted' = accepted (+) SetToBag({coupon[w]})
            /\ wpc' = [wpc EXCEPT ![w] =
                         IF TargetReached(coupons', number_coupons)
                         THEN "done" ELSE "generate"]
       ELSE /\ accepted' = accepted
            /\ wpc' = [wpc EXCEPT ![w] = "generate"]
    /\ coupon' = [coupon EXCEPT ![w] = NoCoupon]
    /\ lock' = 0
    /\ UNCHANGED <<request, export, locals, yielded, main_pc, result, counter,
                   my_number, ret, issued>>

\* Generate, Lock and Join are lines 65, 66 and 75-77 of this file.
NextLarge ==
    \/ ValidateLarge
    \/ SpawnLarge
    \/ \E w \in Workers : Generate(w)
    \/ \E w \in Workers : Lock(w)
    \/ \E w \in Workers : InsertLarge(w)
    \/ Join

InitLarge == InitRun("lock")

SpecLarge == InitLarge /\ [][NextLarge]_vars

\* The scheduling of Fairness for this program: every pool thread keeps
\* running its task, std's Mutex is taken to let every waiter in
\* eventually, and a worker that keeps drawing eventually draws a code the
\* registry does not hold, as long as there is one.
FairnessLarge ==
    /\ WF_vars(ValidateLarge \/ SpawnLarge \/ Join)
    /\ \A w \in 1..MaxThreads :
          /\ WF_vars(Generate(w) \/ InsertLarge(w))
          /\ SF_vars(GenerateFresh(w))
          /\ SF_vars(Lock(w))

FairSpecLarge == InitLarge /\ [][NextLarge]_vars /\ FairnessLarge

\* -------------------------------------- coupon_generator_API.rs (stream) ----
\* Worker 1 stands for the task that polls the stream; wpc[1] is its
\* position inside the unfold closure, "idle" between two polls.
Poller == 1

\* Lines 111-135: the registry, the counter, and Ok(stream) returned.
MakeStream ==
    /\ program = "stream"
    /\ main_pc = "validated"
    /\ main_pc' = "stream"
    /\ result' = "Ok"
    /\ coupons' = {}
    /\ counter' = 0
    /\ UNCHANGED <<request, export, locals, yielded, lock, wpc, my_number, coupon,
                   ret, issued, accepted>>

\* Mutant: counter.load(SeqCst) > number_coupons.
CountReachedOffByOne(c, n) == BigLt(n, FromNat(c))

\* counter.load(SeqCst) >= number_coupons
CountReached(c, n) == BigLe(n, FromNat(c))

\* Mutant: the export polls the stream wherever it is.
MayPollAnywhere(pc) == TRUE

\* The stream is polled by a consumer of any kind (no export under way) or
\* by the export at coupons.next() (line 164), nowhere else in its loop.
MayPoll(pc) == pc \in {"none", "next"}

\* Lines 119-122: a poll enters the closure; None ends the stream.  The
\* poll comes from any consumer, or from coupons.next() in the loop of
\* write_coupons_to_csv (line 164), which None sends on to the flush.
Pull ==
    /\ main_pc = "stream"
    /\ wpc[Poller] = "idle"
    /\ MayPoll(csv_pc)
    /\ IF CountReached(counter, number_coupons)
       THEN /\ main_pc' = "exhausted"
            /\ wpc' = wpc
            /\ csv_pc' = IF csv_pc = "next" THEN "flush" ELSE csv_pc
       ELSE /\ main_pc' = main_pc
            /\ wpc' = [wpc EXCEPT ![Poller] = "generate"]
            /\ csv_pc' = csv_pc
    /\ UNCHANGED <<request, locals, yielded, result, coupons, lock, counter,
                   my_number, coupon, ret, issued, accepted,
                   csv_i, sink, flushes, csv_result>>

\* Line 124: generate_coupon(&mut rng, code_len, &initials).
StreamGenerate ==
    /\ main_pc = "stream"
    /\ wpc[Poller] = "generate"
    /\ \E buffer \in [1..ToNat(code_len) -> SampleBytes] :
          coupon' = [coupon EXCEPT ![Poller] =
                       generate_coupon(buffer, ToNat(code_len), initials)]
    /\ wpc' = [wpc EXCEPT ![Poller] = "lock"]
    /\ UNCHANGED <<request, export, locals, yielded, main_pc, result, coupons, lock,
                   counter, my_number, ret, issued, accepted>>

\* Line 125: coupons.lock().
StreamLock ==
    /\ main_pc = "stream"
    /\ wpc[Poller] = "lock"
    /\ Unlocked(lock)
    /\ lock' = Poller
    /\ wpc' = [wpc EXCEPT ![Poller] = "insert"]
    /\ UNCHANGED <<request, export, locals, yielded, main_pc, result, coupons,
                   counter, my_number, coupon, ret, issued, accepted>>

\* Lines 126-129: set.insert(new_coupon.clone()); break new_coupon on true.
\* The guard is dropped either way.
StreamInsert ==
    /\ main_pc = "stream"
    /\ wpc[Poller] = "insert"
    /\ lock = Poller
    /\ coupons' = coupons \cup {coupon[Poller]}
    /\ IF Inserted(coupons, coupon[Poller])
       THEN /\ accepted' = accepted (+) SetToBag({coupon[Poller]})
            /\ wpc' = [wpc EXCEPT ![Poller] = "yield"]
            /\ coupon' = coupon
       ELSE /\ accepted' = accepted
            /\ wpc' = [wpc EXCEPT ![Poller] = "generate"]
            /\ coupon' = [coupon EXCEPT ![Poller] = NoCoupon]
    /\ lock' = 0
    /\ UNCHANGED <<request, export, locals, yielded, main_pc, result, counter,
                   my_number, ret, issued>>

\* Lines 130-131: counter.fetch_add(1, SeqCst); Some((Ok(coupon), state)).
\* In write_coupons_to_csv the item is Ok, so `?` (line 165) passes it on
\* to write_record.
Yield ==
    /\ main_pc = "stream"
    /\ wpc[Poller] = "yield"
    /\ counter' = fetch_add(counter).new
    /\ yielded' = Append(yielded, coupon[Poller])
    /\ coupon' = [coupon EXCEPT ![Poller] = NoCoupon]
    /\ wpc' = [wpc EXCEPT ![Poller] = "idle"]
    /\ csv_pc' = IF csv_pc = "next" THEN "row" ELSE csv_pc
    /\ UNCHANGED <<request, locals, main_pc, result, coupons, lock,
                   my_number, ret, issued, accepted,
                   csv_i, sink, flushes, csv_result>>

\* Line 115: unfold gave up its state (registry, counter, request) when
\* the closure returned None, so a further poll has nothing to call the
\* closure with: it panics, and touches neither registry nor counter.
\* (write_coupons_to_csv owns the stream and never polls it again.)
PollAfterEnd ==
    /\ main_pc = "exhausted"
    /\ csv_pc = "none"
    /\ main_pc' = "panicked"
    /\ UNCHANGED <<request, export, locals, yielded, result, coupons, lock, counter,
                   wpc, my_number, coupon, ret, issued, accepted>>

NextStream ==
    \/ Validate
    \/ MakeStream
    \/ Pull
    \/ StreamGenerate
    \/ StreamLock
    \/ StreamInsert
    \/ Yield
    \/ PollAfterEnd

InitStream == InitRun("stream") /\ num_threads = 1

SpecStream == InitStream /\ [][NextStream]_vars

\* --------------------------------- the ticket and the lock-only binary ----
InitLocked == InitFew \/ InitLarge

NextLocked ==
    \/ Validate
    \/ Spawn
    \/ \E w \in Workers : FetchAdd(w)
    \/ \E w \in Workers : Generate(w)
    \/ \E w \in Workers : Lock(w)
    \/ \E w \in Workers : Insert(w)
    \/ Join
    \/ ValidateLarge
    \/ SpawnLarge
    \/ \E w \in Workers : InsertLarge(w)

SpecLocked == InitLocked /\ [][NextLocked]_vars

\* ----------------------------------- the ticket binary and the stream ----
InitBoth == InitFew \/ InitStream

NextBoth ==
    \/ Validate
    \/ Spawn
    \/ \E w \in Workers : FetchAdd(w)
    \/ \E w \in Workers : Generate(w)
    \/ \E w \in Workers : Lock(w)
    \/ \E w \in Workers : Insert(w)
    \/ Join
    \/ MakeStream
    \/ Pull
    \/ StreamGenerate
    \/ StreamLock
    \/ StreamInsert
    \/ Yield
    \/ PollAfterEnd

SpecBoth == InitBoth /\ [][NextBoth]_vars

\* ------------------------------------------------ write_coupons_to_csv ----
\* &["Coupon"]
Header == <<67, 111, 117, 112, 111, 110>>

\* The bytes of '"', ',', carriage return and line feed.
QUOTE == 34
COMMA == 44
CR == 13
LF == 10

\* A field is put in quotes when it holds a delimiter, a quote or a line
\* break, and when it is the empty only field of its record.
NeedsQuotes(field) ==
    \/ field = << >>
    \/ \E i \in 1..Len(field) : field[i] \in {COMMA, QUOTE, CR, LF}

\* Inside quotes every quote is written twice.
RECURSIVE DoubleQuotes(_)
DoubleQuotes(field) ==
    IF field = << >> THEN << >>
    ELSE (IF Head(field) = QUOTE THEN <<QUOTE, QUOTE>> ELSE <<Head(field)>>)
         \o DoubleQuotes(Tail(field))

\* Mutant: the field as it is, never quoted.
write_record_raw(field) == field \o <<LF>>

\* Writer::write_record(&[field]): the bytes of a record of one field.
write_record(field) ==
    (IF NeedsQuotes(field)
     THEN <<QUOTE>> \o DoubleQuotes(field) \o <<QUOTE>>
     ELSE field) \o <<LF>>

\* A write the sink rejects may have put out a part of the bytes.
Rejected(bytes) == {SubSeq(bytes, 1, k) : k \in 0..(Len(bytes) - 1)}

\* Mutant: the error is noted and the export goes on.
FailAndGoOn(error, written) ==
    /\ csv_pc' = "next"
    /\ csv_result' = error
    /\ sink' = sink \o written
    /\ UNCHANGED <<csv_i, flushes>>

\* A failed step of the export: `?` returns the error at once.
Fail(error, written) ==
    /\ csv_pc' = "failed"
    /\ csv_result' = error
    /\ sink' = sink \o written
    /\ UNCHANGED <<csv_i, flushes>>

generation ==
    <<locals, main_pc, result, coupons, lock, counter, wpc, my_number,
      coupon, ret, yielded, issued, accepted>>

\* coupon_generator_to_csv_latest.rs lines 162-163, called at line 200 with
\* the Vec coupon_generator returned: File::create empties the file.
CreateFile ==
    /\ program = "ticket"
    /\ main_pc = "returned"
    /\ result = "Ok"
    /\ csv_pc = "none"
    /\ \/ csv_pc' = "header" /\ sink' = << >> /\ UNCHANGED <<csv_i, flushes, csv_result>>
       \/ csv_pc' = "failed" /\ csv_result' = "IoError"
                             /\ UNCHANGED <<csv_i, sink, flushes>>
    /\ UNCHANGED <<request, generation>>

\* coupon_generator_API.rs line 160: the writer is wrapped; the stream is
\* the one coupon_generator returned, or any stream of items the caller
\* passes.
FromWriter ==
    /\ program \in {"stream", "items"}
    /\ main_pc = "stream"
    /\ csv_pc = "none"
    /\ wpc[Poller] = "idle"
    /\ yielded = << >>
    /\ csv_pc' = "header"
    /\ UNCHANGED <<request, generation, csv_i, sink, flushes, csv_result>>

\* Line 165 (161 in the stream's file): write_record(&["Coupon"])?
WriteHeader ==
    /\ csv_pc = "header"
    /\ \/ /\ csv_pc' = "next"
          /\ sink' = sink \o write_record(Header)
          /\ UNCHANGED <<csv_i, flushes, csv_result>>
       \/ \E written \in Rejected(write_record(Header)) :
             Fail("CsvWriteError", written)
    /\ UNCHANGED <<request, generation>>

\* Line 168: for coupon in coupons.
NextCoupon ==
    /\ program = "ticket"
    /\ csv_pc = "next"
    /\ csv_pc' = IF csv_i < Len(ret) THEN "row" ELSE "flush"
    /\ UNCHANGED <<request, generation, csv_i, sink, flushes, csv_result>>

\* The code the loop is at: the next of the slice, or the item just pulled.
CurrentCoupon ==
    IF program = "ticket" THEN ret[csv_i + 1] ELSE yielded[Len(yielded)]

\* Line 169 (166 in the stream's file): write_record(&[coupon])?
WriteRow ==
    /\ csv_pc = "row"
    /\ \/ /\ csv_pc' = "next"
          /\ sink' = sink \o write_record(CurrentCoupon)
          /\ csv_i' = csv_i + 1
          /\ UNCHANGED <<flushes, csv_result>>
       \/ \E written \in Rejected(write_record(CurrentCoupon)) :
             Fail("CsvWriteError", written)
    /\ UNCHANGED <<request, generation>>

\* Lines 172-173 (169-170 in the stream's file): flush()?; Ok(())
Flush ==
    /\ csv_pc = "flush"
    /\ \/ /\ csv_pc' = "done"
          /\ flushes' = flushes + 1
          /\ csv_result' = "Ok"
          /\ UNCHANGED <<csv_i, sink>>
       \/ Fail("IoError", << >>)
    /\ UNCHANGED <<request, generation>>

\* Lines 200-204: main returns what the export returned; the Vec is dropped
\* with it.
Exit ==
    /\ program = "ticket"
    /\ main_pc = "returned"
    /\ csv_pc \in {"done", "failed"}
    /\ main_pc' = "exited"
    /\ UNCHANGED <<request, export, locals, result, coupons, lock, counter,
                   wpc, my_number, coupon, ret, yielded, issued, accepted>>

\* "", "L", and the prefixes a CSV writer has to quote: a line feed, a
\* quote, a comma.
CsvPrefixSamples == {<< >>, <<76>>, <<LF>>, <<QUOTE>>, <<COMMA>>}

\* A run of either program on one thread, exported afterwards.
InitExport ==
    /\ program \in {"ticket", "stream"}
    /\ len \in 0..MaxLen
    /\ number_coupons \in {FromNat(n) : n \in 0..MaxCoupons}
    /\ initials \in CsvPrefixSamples
    /\ len - Len(initials) <= MaxSuffix
    /\ num_threads = 1
    /\ rng_bytes = << >>
    /\ InitLocals

NextExport ==
    \/ Validate
    \/ Spawn
    \/ \E w \in Workers : FetchAdd(w)
    \/ \E w \in Workers : Generate(w)
    \/ \E w \in Workers : Lock(w)
    \/ \E w \in Workers : Insert(w)
    \/ Join
    \/ MakeStream
    \/ Pull
    \/ StreamGenerate
    \/ StreamLock
    \/ StreamInsert
    \/ Yield
    \/ PollAfterEnd
    \/ CreateFile
    \/ FromWriter
    \/ WriteHeader
    \/ NextCoupon
    \/ WriteRow
    \/ Flush
    \/ Exit

SpecExport == InitExport /\ [][NextExport]_vars

\* ------------------------- write_coupons_to_csv on any stream of items ----
\* The errors an item of a Stream<Item = Result<String, CouponError>> may
\* carry.
StreamErrors == {"InitialsTooLong", "TooManyCoupons"}

\* Codes an arbitrary stream is seen to yield: "LA", "LB", and a line feed.
ItemCodes == {<<76, 65>>, <<76, 66>>, <<LF>>}

\* Line 164-165 of coupon_generator_API.rs: coupons.next().await gives
\* Some(Ok(code)), Some(Err(e)) or None; `coupon_result?` returns e.
PullItem ==
    /\ program = "items"
    /\ main_pc = "stream"
    /\ csv_pc = "next"
    /\ \/ /\ Len(yielded) < MaxCoupons
          /\ \E c \in ItemCodes : yielded' = Append(yielded, c)
          /\ csv_pc' = "row"
          /\ UNCHANGED <<main_pc, csv_i, sink, flushes, csv_result>>
       \/ /\ \E e \in StreamErrors : Fail(e, << >>)
          /\ UNCHANGED <<main_pc, yielded>>
       \/ /\ main_pc' = "exhausted"
          /\ csv_pc' = "flush"
          /\ UNCHANGED <<yielded, csv_i, sink, flushes, csv_result>>
    /\ UNCHANGED <<request, locals, result, coupons, lock, counter, wpc,
                   my_number, coupon, ret, issued, accepted>>

\* write_coupons_to_csv(writer, coupons) called with a stream of the
\* caller's.
InitItems ==
    /\ program = "items"
    /\ len = 0
    /\ number_coupons = FromNat(0)
    /\ initials = << >>
    /\ num_threads = 1
    /\ rng_bytes = << >>
    /\ main_pc = "stream"
    /\ overflow = "none"
    /\ result = "Ok"
    /\ code_len = << >>
    /\ max_combinations = << >>
    /\ coupons = {}
    /\ lock = 0
    /\ counter = 0
    /\ wpc = [w \in Workers |-> "idle"]
    /\ csv_pc = "none"
    /\ csv_i = 0
    /\ sink = << >>
    /\ flushes = 0
    /\ csv_result = "pending"
    /\ my_number = [w \in Workers |-> 0]
    /\ coupon = [w \in Workers |-> NoCoupon]
    /\ ret = << >>
    /\ yielded = << >>
    /\ issued = EmptyBag
    /\ accepted = EmptyBag

NextItems ==
    \/ FromWriter
    \/ WriteHeader
    \/ PullItem
    \/ WriteRow
    \/ Flush

SpecItems == InitItems /\ [][NextItems]_vars

\* ------------------------------------ coupon_generator.rs (sequential) ----
\* Lines 16-26 are, statement for statement, lines 44-55 of
\* coupon_generator_large.rs.
ValidateSeq ==
    /\ program = "sequential"
    /\ \E overflow_checks \in BOOLEAN :
          ValidateStep(ValidationU128(len, number_coupons, initials, overflow_checks))

\* Lines 28-29: the random source and the empty set.
SeqStart ==
    /\ program = "sequential"
    /\ main_pc = "validated"
    /\ main_pc' = "loop"
    /\ coupons' = {}
    /\ UNCHANGED <<request, export, locals, yielded, result, lock, counter, wpc,
                   my_number, coupon, ret, issued, accepted>>

\* Indices rng.gen_range(0..CHARSET.len()) is seen to return: enough
\* distinct symbols for every count up to MaxCoupons, and the last index.
IndexSamples == (0..(MaxCoupons - 1)) \cup {CHARSET_LEN - 1}

\* Lines 32-38: the prefix, then CHARSET[idx] for each index drawn.
sequential_coupon(indices, k, prefix) ==
    prefix \o [i \in 1..k |-> CHARSET[indices[i] + 1]]

\* Mutant: one more round once the count is reached.
LoopGoesOnOffByOne(size, n) == BigLe(FromNat(size), n)

\* Line 31: (coupons.len() as u128) < number_coupons
LoopGoesOn(size, n) == BigLt(FromNat(size), n)

\* Lines 31-41: one round of the loop: a code is built and inserted.
SeqRound ==
    /\ program = "sequential"
    /\ main_pc = "loop"
    /\ LoopGoesOn(Cardinality(coupons), number_coupons)
    /\ \E indices \in [1..ToNat(code_len) -> IndexSamples] :
          LET code == sequential_coupon(indices, ToNat(code_len), initials)
          IN  /\ coupons' = coupons \cup {code}
              /\ accepted' = IF Inserted(coupons, code)
                             THEN accepted (+) SetToBag({code})
                             ELSE accepted
    /\ UNCHANGED <<request, export, locals, yielded, main_pc, result, lock,
                   counter, wpc, my_number, coupon, ret, issued>>

\* Lines 31 and 43: the loop is left and the set collected into a Vec in
\* the HashSet's iteration order.
SeqReturn ==
    /\ program = "sequential"
    /\ main_pc = "loop"
    /\ ~LoopGoesOn(Cardinality(coupons), number_coupons)
    /\ main_pc' = "returned"
    /\ result' = "Ok"
    /\ ret' \in Orderings(coupons)
    /\ UNCHANGED <<request, export, locals, yielded, coupons, lock, counter, wpc,
                   my_number, coupon, issued, accepted>>

NextSeq ==
    \/ ValidateSeq
    \/ SeqStart
    \/ SeqRound
    \/ SeqReturn

\* The function is called from one thread.
InitSeq ==
    /\ program = "sequential"
    /\ len \in 0..MaxLen
    /\ number_coupons \in {FromNat(n) : n \in 0..MaxCoupons}
    /\ initials \in PrefixSamples
    /\ len - Len(initials) <= MaxSuffix
    /\ num_threads = 1
    /\ rng_bytes = << >>
    /\ InitLocals

SpecSeq == InitSeq /\ [][NextSeq]_vars

\* ------------------------------------------------- validation alone ----
\* usize::MAX
UsizeMax == TwoPowMinus(UsizeLimbs, 1)

\* Required counts around every power of the alphabet size that a usize
\* holds, and the ends of the usize range.
CountSamples ==
    {x \in UNION {{BigPred(BigPow(CHARSET_LEN, j)),
                   BigPow(CHARSET_LEN, j),
                   BigSucc(BigPow(CHARSET_LEN, j))} : j \in 0..MaxValLen} :
        Fits(x, UsizeLimbs)}
    \cup {UsizeMax}

\* A call whose request may be of any size: only the checks are run.
InitValidate ==
    /\ program = "ticket"
    /\ len \in 0..MaxValLen
    /\ number_coupons \in CountSamples
    /\ initials \in PrefixSamples
    /\ num_threads = 1
    /\ rng_bytes = << >>
    /\ InitLocals

NextValidate == Validate

SpecValidate == InitValidate /\ [][NextValidate]_vars

\* ---------------------------------------------- generate_coupon alone ----
\* Bytes drawn where more than one is drawn: both ends of the alphabet, the
\* first byte that wraps round, and the last byte.
WrapSamples == {0, CHARSET_LEN - 1, CHARSET_LEN, 255}

\* What fill_bytes may put into the buffer: nothing, any one byte, or up to
\* MaxDraw bytes out of WrapSamples.
Buffers ==
    {<< >>} \cup {<<b>> : b \in ByteValues}
    \cup UNION {[1..k -> WrapSamples] : k \in 2..MaxDraw}

\* One call of generate_coupon, code_len being the buffer's length.
InitCall ==
    /\ program = "call"
    /\ len = 0
    /\ number_coupons = FromNat(0)
    /\ initials \in PrefixSamples
    /\ num_threads = 1
    /\ rng_bytes \in Buffers
    /\ InitLocals

CallGenerate ==
    /\ program = "call"
    /\ main_pc = "start"
    /\ coupon' = [coupon EXCEPT
                    ![1] = generate_coupon(rng_bytes, Len(rng_bytes), initials)]
    /\ main_pc' = "returned"
    /\ UNCHANGED <<request, locals, result, coupons, lock, counter, wpc,
                   my_number, ret, yielded, issued, accepted, export>>

NextCall == CallGenerate

SpecCall == InitCall /\ [][NextCall]_vars


\* ------------------------------------------------------------- claims ----
\* The request is valid: len(prefix) <= total_length and
\* required_count <= 36^(total_length - len(prefix)).
ValidRequest ==
    /\ Len(initials) <= len
    /\ BigLe(number_coupons, BigPow(36, len - Len(initials)))

Required == ToNat(number_coupons)

Returned == main_pc = "returned"

AllStopped == \A w \in Spawned : wpc[w] = "done"

\* C1: for every valid request and every number of workers, the ticket-based
\* coupon_generator returns Ok with exactly required_count codes.
C1_ExactCount ==
    (program = "ticket" /\ ValidRequest /\ Returned) =>
        (result = "Ok" /\ Len(ret) = Required)

C1_Witness ==
    /\ program = "ticket" /\ Returned /\ result = "Ok"
    /\ num_threads = MaxThreads
    /\ Required = MaxCoupons
    /\ Len(ret) = MaxCoupons

\* C2: within one run no code is accepted twice, whatever the interleaving
\* and the number of workers: every accepted code was accepted once, and the
\* returned codes are pairwise distinct.
C2_NoDuplicates ==
    program = "ticket" =>
        /\ \A c \in BagToSet(accepted) : CopiesIn(c, accepted) = 1
        /\ \A i, j \in 1..Len(ret) : ret[i] = ret[j] => i = j

\* A worker holds the lock with a candidate another worker got accepted.
C2_Witness ==
    /\ program = "ticket"
    /\ num_threads = ManyThreads
    /\ \E w \in Spawned :
          wpc[w] = "insert" /\ coupon[w] \in BagToSet(accepted)

\* How often ticket value v was handed out, over all workers.
TimesIssued(v) ==
    LET F[S \in SUBSET Workers] ==
            IF S = {} THEN 0
            ELSE LET w == CHOOSE x \in S : TRUE
                 IN  CopiesIn(<<w, v>>, issued) + F[S \ {w}]
    IN  F[Workers]

\* C4: every ticket value in [0, required_count) is handed to one worker,
\* once: never twice in any state, and exactly once when the workers have
\* stopped; two workers at work never hold the same ticket.
C4_TicketsOnce ==
    program = "ticket" =>
        /\ \A v \in 0..MaxCoupons : TimesIssued(v) <= 1
        /\ (main_pc = "scope" /\ AllStopped) =>
               \A v \in 0..(Required - 1) : TimesIssued(v) = 1
        /\ \A w1, w2 \in Spawned :
               (w1 # w2 /\ wpc[w1] \in {"generate", "lock", "insert"}
                        /\ wpc[w2] \in {"generate", "lock", "insert"})
                   => my_number[w1] # my_number[w2]

C4_Witness ==
    /\ program = "ticket"
    /\ main_pc = "scope" /\ AllStopped
    /\ Required = MaxCoupons
    /\ \E w1, w2 \in Spawned :
          w1 # w2 /\ CopiesIn(<<w1, 0>>, issued) = 1
                  /\ CopiesIn(<<w2, 1>>, issued) = 1

\* C5: a request with len(prefix) > total_length is answered with the error
\* value InitialsTooLong.
C5_InitialsTooLongIsError ==
    (Len(initials) > len /\ main_pc # "start") =>
        (Returned /\ result = "InitialsTooLong")

\* No worker, registry entry, ticket, candidate or item exists.
NothingGenerated ==
    /\ \A w \in Workers : wpc[w] = "idle" /\ coupon[w] = NoCoupon
    /\ coupons = {}
    /\ counter = 0
    /\ yielded = << >>
    /\ issued = EmptyBag
    /\ accepted = EmptyBag

C7_Inv ==
    /\ ~ValidRequest => NothingGenerated
    /\ ~NothingGenerated =>
           /\ main_pc \in {"scope", "returned", "exited", "stream", "exhausted",
                          "panicked"}
           /\ result \in {"pending", "Ok"}

C7_Step ==
    (wpc' # wpc \/ coupons' # coupons \/ counter' # counter
                \/ coupon' # coupon \/ yielded' # yielded)
        => (ValidRequest /\ main_pc \in {"validated", "scope", "stream"})

\* C7: validation completes before any generation state exists: an invalid
\* request never gets a registry entry, a ticket, a worker or a candidate,
\* and every step that touches them is taken after validation succeeded.
C7_ValidationFirst == []C7_Inv /\ [][C7_Step]_vars

C7_Witness ==
    /\ program = "ticket"
    /\ main_pc = "scope"
    /\ \E w \in Spawned : wpc[w] = "lock"

\* C9: when len(prefix) = total_length, a request for 1 code returns exactly
\* the collection {prefix} and a request for 2 codes fails with
\* TooManyCoupons.
C9_PrefixOnly ==
    (program = "ticket" /\ Len(initials) = len /\ Returned) =>
        /\ Required = 1 => (result = "Ok" /\ ret = <<initials>>)
        /\ Required = 2 => result = "TooManyCoupons"

C9_Witness ==
    /\ program = "ticket" /\ Returned
    /\ Len(initials) = len /\ len > 0
    /\ Required = 1
    /\ ret = <<initials>>


\* C6: for a request with len(prefix) <= total_length, validation accepts
\* required_count = 36^(total_length - len(prefix)) and rejects that number
\* plus one with TooManyCoupons.
C6_Boundary ==
    (main_pc # "start" /\ Len(initials) <= len) =>
        LET space == BigPow(36, len - Len(initials))
        IN  /\ number_coupons = space => main_pc = "validated"
            /\ number_coupons = BigSucc(space) =>
                   (Returned /\ result = "TooManyCoupons")

C6_Witness ==
    /\ main_pc = "validated"
    /\ len - Len(initials) = 12
    /\ number_coupons = BigPow(36, 12)


\* C3: in the lock-only generator, for every valid request and every number
\* of workers the returned collection contains exactly number_coupons codes.
C3_ExactCountLockOnly ==
    (program = "lock" /\ ValidRequest /\ Returned) =>
        (result = "Ok" /\ Len(ret) = Required)


\* C8: a run whose request passed validation, in particular one with
\* required_count = combinatorial_space, eventually completes with all
\* workers stopped and Ok returned, under fair scheduling and a random source
\* that eventually delivers a code not yet in the registry.
C8_Completes ==
    (program = "ticket" /\ main_pc = "validated")
        ~> (Returned /\ result = "Ok" /\ AllStopped)

C8_Witness ==
    /\ program = "ticket" /\ Returned /\ result = "Ok" /\ AllStopped
    /\ num_threads >= 2
    /\ number_coupons = max_combinations
    /\ Len(ret) = 1


\* A-Z and 0-9, as character codes.
Alphabet == (65..90) \cup (48..57)

WellFormed(c) ==
    /\ Len(c) = len
    /\ SubSeq(c, 1, Len(initials)) = initials
    /\ \A i \in (Len(initials) + 1)..Len(c) : c[i] \in Alphabet

Range(f) == {f[i] : i \in DOMAIN f}

\* C10: every code that enters the registry or is yielded by the stream (or
\* is returned) has exactly total_length symbols, begins with the prefix and
\* has every remaining symbol in A-Z, 0-9.
C10_WellFormed ==
    \A c \in coupons \cup BagToSet(accepted) \cup Range(yielded) \cup Range(ret) :
        WellFormed(c)

\* The stream has yielded a code made of a prefix and a random symbol.
C10_Witness ==
    /\ program = "stream"
    /\ initials # << >>
    /\ len > Len(initials)
    /\ yielded # << >>
    /\ yielded[1] \in coupons

\* The stream has returned its end (and was perhaps polled again).
Exhausted ==
    /\ program = "stream"
    /\ result = "Ok"
    /\ main_pc \in {"exhausted", "panicked"}

C11_Inv ==
    program = "stream" =>
        /\ Len(yielded) <= Required
        /\ \A i, j \in 1..Len(yielded) : yielded[i] = yielded[j] => i = j
        /\ Exhausted => Len(yielded) = Required

C11_Step ==
    Exhausted =>
        /\ Exhausted'
        /\ yielded' = yielded
        /\ coupons' = coupons
        /\ counter' = counter

\* C11: the stream yields exactly required_count items, pairwise distinct,
\* and then nothing: once a pull has found the counter at required_count
\* the stream is exhausted for good, and no later pull yields an item or
\* changes the registry or the counter.
C11_StreamExact == []C11_Inv /\ [][C11_Step]_vars

\* The stream gave MaxCoupons items, ended, and was polled once more.
C11_Witness ==
    /\ program = "stream"
    /\ result = "Ok"
    /\ main_pc = "panicked"
    /\ Len(yielded) = MaxCoupons

\* ---- export ----
\* What a CSV reader makes of the bytes: the records, each the sequence of
\* its fields.  Quotes open a field only at its start, a doubled quote
\* inside quotes is one quote, and empty lines are skipped.
RECURSIVE ReadRecords(_, _, _, _)
ReadRecords(bytes, mode, field, record) ==
    IF bytes = << >>
    THEN IF mode = "line" THEN << >> ELSE <<Append(record, field)>>
    ELSE LET b == Head(bytes)
             rest == Tail(bytes)
         IN  IF mode = "quoted"
             THEN IF b = QUOTE
                  THEN ReadRecords(rest, "closing", field, record)
                  ELSE ReadRecords(rest, "quoted", Append(field, b), record)
             ELSE IF mode = "closing" /\ b = QUOTE
             THEN ReadRecords(rest, "quoted", Append(field, QUOTE), record)
             ELSE IF b \in {LF, CR}
             THEN IF mode = "line"
                  THEN ReadRecords(rest, "line", << >>, << >>)
                  ELSE <<Append(record, field)>>
                       \o ReadRecords(rest, "line", << >>, << >>)
             ELSE IF b = COMMA
             THEN ReadRecords(rest, "field", << >>, Append(record, field))
             ELSE IF b = QUOTE /\ mode \in {"line", "field"}
             THEN ReadRecords(rest, "quoted", << >>, record)
             ELSE ReadRecords(rest, "plain", Append(field, b), record)

Records == ReadRecords(sink, "line", << >>, << >>)

\* The lines of the output, each ended by a line feed.
Lines == Cardinality({i \in 1..Len(sink) : sink[i] = LF})

\* The codes handed to the export.
Codes == IF program = "ticket" THEN Range(ret) ELSE Range(yielded)

Exported == csv_pc = "done" /\ csv_result = "Ok"

\* The header is the first record, the codes are the others, one each.
HeaderThenCodes ==
    /\ Len(Records) = Required + 1
    /\ Records[1] = <<Header>>
    /\ SubSeq(sink, 1, Len(Header) + 1) = Header \o <<LF>>
    /\ {Records[i] : i \in 2..Len(Records)} = {<<c>> : c \in Codes}
    /\ Cardinality(Codes) = Required

IsPrefix(a, b) == Len(a) <= Len(b) /\ SubSeq(b, 1, Len(a)) = a

ExportError == csv_result \in {"CsvWriteError", "IoError"}

\* An error is the end of the export, and the Vec it was given is still
\* what coupon_generator returned.
C13_Inv ==
    /\ csv_result # "pending" => csv_pc \in {"done", "failed"}
    /\ ExportError <=> csv_pc = "failed"
    /\ (program = "ticket" /\ csv_pc # "none") =>
           (Range(ret) = coupons /\ Len(ret) = Required)

\* The export only appends and never touches the Vec; the failing step
\* completes no row, and after it nothing is written.
C13_Step ==
    /\ csv_pc # "none" => (IsPrefix(sink, sink') /\ ret' = ret)
    /\ ExportError' => csv_i' = csv_i
    /\ ExportError =>
           (sink' = sink /\ csv_pc' = "failed" /\ csv_result' = csv_result)

C14_Inv ==
    program = "ticket" =>
        /\ main_pc \in {"start", "validated"} => coupons = {}
        /\ Cardinality(coupons) <= Required
        /\ (main_pc = "scope" /\ AllStopped) =>
               Cardinality(coupons) = Required

C14_Step == program = "ticket" => coupons \subseteq coupons'

\* C14: in a ticket-based run the registry starts empty, never loses a
\* member, never holds more than required_count codes, and holds exactly
\* required_count when the last worker has stopped.
C14_RegistryGrows == []C14_Inv /\ [][C14_Step]_vars

\* All workers of a full pool have stopped on a full registry.
C14_Witness ==
    /\ program = "ticket"
    /\ main_pc = "scope" /\ AllStopped
    /\ num_threads = MaxThreads
    /\ Cardinality(coupons) = MaxCoupons

C15_Inv ==
    /\ \A w \in Workers : wpc[w] = "insert" <=> lock = w
    /\ Cardinality({w \in Workers : wpc[w] = "insert"}) <= 1

C15_Step ==
    /\ coupons' # coupons => (lock # 0 /\ lock' = 0)
    /\ (lock # 0 /\ lock' # lock) =>
           /\ lock' = 0
           /\ coupons' = coupons \cup {coupon[lock]}
           /\ IF coupon[lock] \in coupons
              THEN /\ coupons' = coupons
                   /\ accepted' = accepted
                   /\ wpc'[lock] = "generate"
              ELSE accepted' = accepted (+) SetToBag({coupon[lock]})
    /\ \A w \in Workers :
           coupon'[w] \notin {coupon[w], NoCoupon} =>
               (wpc[w] = "generate" /\ lock # w /\ lock' # w)

\* C15: the insert-or-reject check is atomic and exclusive: one worker at
\* most is inside it, the registry changes only there, the candidate is
\* added and reported accepted iff it was absent and the registry is left
\* as it was otherwise; a worker draws its candidates without the lock.
C15_AtomicInsert == []C15_Inv /\ [][C15_Step]_vars

\* One worker is inside the check with a candidate the registry holds
\* while another is drawing a candidate.
C15_Witness ==
    \E w1, w2 \in Spawned :
        /\ wpc[w1] = "insert" /\ coupon[w1] \in coupons
        /\ wpc[w2] = "generate"

\* C16 as stated: throughout a ticket-based run the counter does not
\* exceed required_count.
C16_CounterInRange ==
    program = "ticket" => counter <= Required

C16_Inv ==
    program = "ticket" =>
        /\ counter <= Required + num_threads
        /\ \A w \in Spawned :
               wpc[w] \in {"generate", "lock", "insert"} =>
                   my_number[w] < Required
        /\ (main_pc = "scope" /\ AllStopped) =>
               counter = Required + num_threads

C16_Step == program = "ticket" => counter' \in {counter, counter + 1}

\* C16, amended: the counter only ever increases, by one for each value a
\* worker draws; the tickets workers work on lie in [0, required_count),
\* while the counter itself goes on to required_count + workers, one draw
\* past the end for every worker, and is exactly that when all have stopped.
C16_CounterOvershoots == []C16_Inv /\ [][C16_Step]_vars

\* A full pool has stopped: the counter stands at MaxCoupons + MaxThreads.
C16_Witness ==
    /\ program = "ticket"
    /\ main_pc = "scope" /\ AllStopped
    /\ num_threads = MaxThreads
    /\ counter = MaxCoupons + MaxThreads

C18_ExactDecision ==
    (main_pc # "start" /\ Len(initials) <= len /\ overflow # "panic") =>
        (result = "TooManyCoupons" <=>
            BigLt(BigPow(CHARSET_LEN, len - Len(initials)), number_coupons))

\* ---- tickets and work ----
Working(w) == wpc[w] \in {"generate", "lock", "insert"}

\* A worker at work holds a ticket below required_count that was issued to
\* it; every ticket issued is either being worked on or has ended in one
\* accepted insertion; a stopped worker holds no candidate and no lock.
C19_Inv ==
    program = "ticket" =>
        /\ \A w \in Spawned :
               Working(w) =>
                   /\ my_number[w] < Required
                   /\ CopiesIn(<<w, my_number[w]>>, issued) = 1
        /\ BagCardinality(issued) =
               BagCardinality(accepted)
                   + Cardinality({w \in Spawned : Working(w)})
        /\ \A w \in Spawned :
               wpc[w] = "done" => (coupon[w] = NoCoupon /\ lock # w)

C19_Step ==
    program = "ticket" =>
        /\ coupons' # coupons => (lock \in Spawned /\ Working(lock))
        /\ accepted' # accepted =>
               \E w \in Spawned : wpc[w] = "insert" /\ wpc'[w] = "fetch"
        /\ \A w \in Spawned :
               /\ (Working(w) /\ Working(w)') => my_number'[w] = my_number[w]
               /\ (Working(w) /\ ~Working(w)') =>
                      /\ wpc[w] = "insert" /\ wpc'[w] = "fetch"
                      /\ BagCardinality(accepted') = BagCardinality(accepted) + 1
               /\ (wpc[w] = "fetch" /\ wpc'[w] # "fetch") =>
                      /\ counter' = counter + 1
                      /\ IF counter >= Required
                         THEN wpc'[w] = "done"
                         ELSE Working(w)' /\ my_number'[w] = counter
               /\ wpc[w] = "done" =>
                      (wpc'[w] = "done" /\ coupon'[w] = coupon[w])

\* C19: a worker inserts only while it holds a ticket in
\* [0, required_count); between drawing one ticket and drawing the next it
\* makes exactly one accepted insertion, however many candidates it
\* discards; a worker that draws a value >= required_count stops and
\* neither generates nor inserts again.
C19_OneInsertPerTicket == []C19_Inv /\ [][C19_Step]_vars

\* One worker has stopped; another holds the last ticket and is about to
\* have a candidate rejected.
C19_Witness ==
    /\ program = "ticket"
    /\ \E w1, w2 \in Spawned :
          /\ wpc[w1] = "done"
          /\ wpc[w2] = "insert"
          /\ coupon[w2] \in coupons
          /\ my_number[w2] = Required - 1

\* ---- streaming export ----
StreamExport == program = "stream" /\ csv_pc # "none"

C20_Inv ==
    StreamExport =>
        /\ wpc[Poller] # "idle" => csv_i = Len(yielded)
        /\ flushes <= 1
        /\ (flushes = 1 \/ csv_pc = "flush") =>
               (main_pc = "exhausted" /\ csv_i = Len(yielded))

C20_Step ==
    StreamExport =>
        /\ (wpc[Poller] = "idle" /\ wpc'[Poller] # "idle") =>
               csv_i = Len(yielded)
        /\ yielded' # yielded =>
               (csv_i = Len(yielded) /\ csv_i' = csv_i /\ sink' = sink)
        /\ flushes' # flushes => (main_pc = "exhausted" /\ flushes = 0)

RECURSIVE RowsOf(_)
RowsOf(codes) ==
    IF codes = << >> THEN << >>
    ELSE write_record(Head(codes)) \o RowsOf(Tail(codes))

CallReturned == program = "call" /\ main_pc = "returned"

\* C22: the result of generate_coupon is the prefix followed, in order, by
\* CHARSET[b_i mod 36] for each drawn byte b_i, so that it is fixed by the
\* prefix and the bytes, and none of its generated characters is the
\* '\0' filler of the lookup table.
C22_PrefixThenSymbols ==
    CallReturned =>
        LET code == coupon[1]
            k == Len(rng_bytes)
            p == Len(initials)
        IN  /\ Len(code) = p + k
            /\ \A i \in 1..p : code[i] = initials[i]
            /\ \A i \in 1..k :
                   /\ code[p + i] = CHARSET[(rng_bytes[i] % 36) + 1]
                   /\ code[p + i] # 0

\* "LI" followed by the symbols of the bytes 36 and 255: 'A' and 'D'.
C22_Witness ==
    /\ CallReturned
    /\ initials = <<76, 73>>
    /\ rng_bytes = <<36, 255>>
    /\ coupon[1] = <<76, 73, 65, 68>>

\* C23: byte mod 36 does not spread the 256 byte values evenly: the symbol a
\* one-byte call returned is the symbol of 8 byte values when it is one of
\* A, B, C, D (alphabet indices 0..3) and of 7 byte values otherwise.
C23_Preimages ==
    (CallReturned /\ Len(rng_bytes) = 1) =>
        LET same == {b \in ByteValues :
                        generate_coupon(<<b>>, 1, initials) = coupon[1]}
            symbol == coupon[1][Len(initials) + 1]
        IN  Cardinality(same) =
                IF symbol \in {CHARSET[j + 1] : j \in 0..3} THEN 8 ELSE 7

\* The last byte value, 255 = 7 * 36 + 3, is the eighth preimage of 'D'.
C23_Witness ==
    /\ CallReturned
    /\ rng_bytes = <<255>>
    /\ coupon[1] = initials \o <<68>>

\* ---- sequential generator ----
C24_Inv ==
    program = "sequential" =>
        /\ Cardinality(coupons) <= Required
        /\ (ValidRequest /\ Returned) =>
               /\ result = "Ok"
               /\ Len(ret) = Required
               /\ \A i, j \in 1..Len(ret) : ret[i] = ret[j] => i = j
               /\ \A i \in 1..Len(ret) : Len(ret[i]) = len

C24_Step ==
    (program = "sequential" /\ main_pc = "loop" /\ main_pc' # "loop") =>
        Cardinality(coupons) = Required

\* C24: the sequential generator never holds more than number_coupons codes,
\* leaves its loop only with exactly number_coupons of them, and so returns,
\* for a valid request, number_coupons pairwise distinct codes of length len.
C24_SequentialExact == []C24_Inv /\ [][C24_Step]_vars

\* The largest count was asked for the longest code, and came back.
C24_Witness ==
    /\ program = "sequential" /\ Returned /\ result = "Ok"
    /\ Required = MaxCoupons
    /\ Len(ret) = MaxCoupons
    /\ len = MaxLen

\* ---- termination of the lock-only generator ----
\* No code is left to draw: the suffix is empty and the registry holds the
\* one code there is, so that number_coupons <= 1 = combinatorial_space.
SpaceUsedUp == len = Len(initials) /\ Cardinality(coupons) = 1

\* C25: in the lock-only generator, under fair scheduling, once the registry
\* has reached target_count every worker leaves its loop and
\* coupon_generator returns.  Stated for the valid requests that use up
\* their combinatorial space, where no draw the samples leave out could
\* help a worker on.
C25_ReturnsOnceReached ==
    (/\ program = "lock" /\ ValidRequest /\ main_pc = "scope"
     /\ SpaceUsedUp
     /\ TargetReached(coupons, number_coupons))
        ~> (AllStopped /\ Returned)

\* ---- the registry lock ----
\* A step of worker w's task.
WorkerStep(w) == FetchAdd(w) \/ Generate(w) \/ Lock(w) \/ Insert(w)

C26_Inv ==
    (program = "ticket" /\ main_pc = "scope") =>
        /\ \A w \in Spawned : wpc[w] = "insert" <=> lock = w
        /\ lock \in Spawned \cup {0}
        /\ \A w \in Spawned :
               wpc[w] \notin {"done", "lock"} => ENABLED WorkerStep(w)
        /\ (\E w \in Spawned : wpc[w] # "done") =>
               \E w \in Spawned : ENABLED WorkerStep(w)

C26_Step ==
    \A w \in Spawned :
        (program = "ticket" /\ wpc[w] = "insert" /\ wpc'[w] # "insert") =>
            lock = w /\ lock' = 0

\* C26: the lock is held only by a worker that is about to insert, and is
\* free again after every insert attempt, accepted or rejected; a worker
\* that is not waiting for the lock can always take its next step; and
\* whenever some worker has not stopped, some worker step is enabled.
C26_NoDeadlock == []C26_Inv /\ [][C26_Step]_vars

\* A worker waits for the lock while another holds it, both having drawn
\* the same code: one of the two inserts will be rejected.
C26_Witness ==
    /\ program = "ticket" /\ main_pc = "scope"
    /\ wpc[1] = "lock"
    /\ lock = 2 /\ wpc[2] = "insert"
    /\ coupon[1] = coupon[2]

\* ---- the stream between pulls ----
\* The stream exists and no poll is inside the closure.
BetweenPulls ==
    /\ program = "stream"
    /\ main_pc \in {"stream", "exhausted", "panicked"}
    /\ wpc[Poller] = "idle"

\* An Ok item of this request: the prefix and code_len alphabet symbols.
OkItem(item) ==
    /\ item \notin StreamErrors
    /\ Len(item) = len
    /\ \A i \in 1..Len(initials) : item[i] = initials[i]
    /\ \A i \in (Len(initials) + 1)..len : item[i] \in Range(CHARSET)

C27_Inv ==
    program = "stream" =>
        /\ BetweenPulls =>
               /\ counter = Cardinality(coupons)
               /\ counter = Len(yielded)
               /\ coupons = Range(yielded)
        /\ \A i \in 1..Len(yielded) : OkItem(yielded[i])

C27_Step ==
    program = "stream" =>
        /\ (BetweenPulls /\ ~BetweenPulls') => coupons = Range(yielded)
        /\ coupons' # coupons =>
               /\ coupons' = coupons \cup {coupon[Poller]}
               /\ coupons = Range(yielded)
               /\ wpc'[Poller] = "yield"
        /\ yielded' # yielded =>
               /\ yielded' = Append(yielded, coupon[Poller])
               /\ coupon[Poller] \notin Range(yielded)
               /\ coupons = Range(yielded')
               /\ BetweenPulls'

\* C27: between two pulls of the stream the counter, the size of the
\* registry and the number of items yielded are equal; every item yielded
\* is an Ok code, never an error; and the registry a pull starts with is
\* the set of codes yielded before, to which the pull adds the one code it
\* yields, absent until then.
C27_BetweenPulls == []C27_Inv /\ [][C27_Step]_vars

\* MaxCoupons items have been yielded and the stream has not ended yet.
C27_Witness ==
    /\ BetweenPulls
    /\ main_pc = "stream"
    /\ Len(yielded) = MaxCoupons
    /\ counter = MaxCoupons
    /\ Cardinality(coupons) = MaxCoupons

====
